---- MODULE Spec2Model ----
(***************************************************************************)
(* Model of scripts/whisperx-service.py: the two transcription endpoints   *)
(* (transcribe, transcribe_progressive) run by a pool of request threads   *)
(* that share _gpu_lock, _currently_processing and _transcription_count,   *)
(* the progressive flush loop, the outbound Supabase calls, and the sweep  *)
(* of /tmp that cleanup_orphan_temps makes when the process starts.        *)
(***************************************************************************)
EXTENDS Integers, Sequences, FiniteSets, TLC

VARIABLES
    supabase_configured,   \* _SUPABASE_URL and _SUPABASE_KEY both set (module load)
    media,                 \* what the engine finds in each video: duration, segments
    workers,               \* the request threads of the server's pool
    gpu_lock,              \* _gpu_lock.locked()
    currently_processing,  \* _currently_processing
    transcription_count,   \* _transcription_count
    tmpdirs,               \* threads whose mkdtemp directory exists on disk
    store,                 \* transcripts table: its rows
    pc,                    \* per request thread: position in the handler
    req,                   \* per thread: the request (endpoint, video_id)
    guard,                 \* per thread: "none", or "held"/"released" once this
                           \* request acquired _gpu_lock / released it again
    info,                  \* per thread: info (its duration)
    estimated_duration,    \* per thread: local estimated_duration
    segments,              \* per thread: local segments
    last_flush_count,      \* per thread: local last_flush_count
    yielded,               \* per thread: segments the generator has yielded
    count_tmp,             \* per thread: value loaded by `_transcription_count += 1`
    audio,                 \* per thread: size of the audio file in its tmpdir
    upserts,               \* per thread: supabase_upsert_segments calls of this request
    heartbeats,            \* per thread: supabase_heartbeat calls of this request
    resp,                  \* per thread: the response (status code and body)
    scratch,               \* entries of /tmp when the process starts
    hf_home,               \* os.environ.get("HF_HOME", "")
    swept,                 \* cleanup_orphan_temps has run
    cleaned                \* paths it printed as "Cleaned orphan temp"

vars == <<supabase_configured, media, workers, gpu_lock, currently_processing, transcription_count,
          tmpdirs, store, pc, req, guard, info, estimated_duration, segments,
          last_flush_count, yielded, count_tmp, audio, upserts, heartbeats, resp,
          scratch, hf_home, swept, cleaned>>

shared == <<supabase_configured, media, workers, gpu_lock, currently_processing, transcription_count,
            tmpdirs, store>>

job_locals == <<info, estimated_duration, segments, last_flush_count, yielded,
                count_tmp, upserts, heartbeats>>

\* what the startup sweep works on
startup_vars == <<scratch, hf_home, swept, cleaned>>

\* what the request handlers work on
service_vars == <<shared, pc, req, guard, job_locals, audio, resp>>


----------------------------------------------------------------------------
(* Bounds of the model *)

\* longest segment stream the generator yields
MaxSegs == 41
\* most checkpoint/heartbeat calls that fail among the requests in flight
MaxPersistFailures == 2
\* requests are accepted while fewer than this many jobs have completed
MaxJobs == 1
\* most entries /tmp holds when the process starts
MaxEntries == 2

Threads == {"t1", "t2"}

None == "None"

\* an optional number: a parameter left out of a call, a key left out of a body
Absent == <<>>
Present(x) == <<x>>

\* request bodies: video_id of length 0, 10, 11, 11 and 12
VideoIds == {"", "abcdefghij", "dQw4w9WgXcQ", "abcdefghijkl"}
Endpoints == {"transcribe", "progressive"}

----------------------------------------------------------------------------
(* Program constants *)

flush_interval == 20
FallbackDuration == 600
PctCeiling == 95
MinAudioBytes == 1000
MAX_AUDIO_BYTES == 1500000000

Min(a, b) == IF a <= b THEN a ELSE b

----------------------------------------------------------------------------
(* Exceptions and responses *)

NoBody == [segments |-> <<>>, duration |-> 0, segment_count |-> Absent]
HTTPException(code, detail) ==
    [kind |-> "HTTPException", code |-> code, detail |-> detail]
\* the engine failing: any exception that is not an HTTPException
OtherException == [kind |-> "Exception", code |-> 0, detail |-> "RuntimeError"]
\* subprocess.TimeoutExpired, raised by subprocess.run(..., timeout=timeout)
TimeoutExpired == [kind |-> "Exception", code |-> 0, detail |-> "timed out"]
Returned == [kind |-> "return", code |-> 200, detail |-> ""]

\* except HTTPException: raise / except Exception: raise HTTPException(500)
HandlerStatus(exc) == IF exc.kind = "HTTPException" THEN exc.code ELSE 500

NoResponse == [code |-> 0, detail |-> "", body |-> NoBody]
ErrorResponse(code, detail) == [code |-> code, detail |-> detail, body |-> NoBody]

----------------------------------------------------------------------------
(* Pure functions of the service *)

\* mutant: only identifiers that are too short are refused
ValidVideoIdAtLeast11(vid) == vid # "" /\ Len(vid) >= 11

\* `if not vid or len(vid) != 11: raise HTTPException(400, ...)`
ValidVideoId(vid) == vid # "" /\ Len(vid) = 11

\* the checks either endpoint makes before it touches _gpu_lock:
\* 0 when the request passes, else the status code it is rejected with
EntryCheck(endpoint, vid, configured) ==
    IF endpoint = "progressive" /\ ~configured THEN 500
    ELSE IF ~ValidVideoId(vid) THEN 400
    ELSE 0

\* the detail of the HTTPException raised by that check
EntryDetail(code) ==
    IF code = 500 THEN "Supabase env vars not configured on GPU server"
    ELSE "Invalid video_id"

\* mutant: no exclusion, every request gets the accelerator
TryAcquireAlways(locked) == TRUE

\* _gpu_lock.acquire(blocking=False): succeeds iff the lock is not locked
TryAcquire(locked) == ~locked

NoFile == -1

\* mutant: a file of exactly the minimum size is refused as well
download_audio_MinExclusive(timed_out, returncode, fsize) ==
    IF timed_out THEN TimeoutExpired
    ELSE IF returncode # 0 THEN HTTPException(502, "Audio download failed")
    ELSE IF fsize = NoFile THEN HTTPException(502, "No audio file found")
    ELSE IF fsize <= MinAudioBytes THEN HTTPException(502, "Audio too small")
    ELSE IF fsize > MAX_AUDIO_BYTES THEN HTTPException(413, "Audio too large")
    ELSE Returned

\* download_audio: yt-dlp timed out / exit code / glob result / file size
download_audio(timed_out, returncode, fsize) ==
    IF timed_out THEN TimeoutExpired
    ELSE IF returncode # 0 THEN HTTPException(502, "Audio download failed")
    ELSE IF fsize = NoFile THEN HTTPException(502, "No audio file found")
    ELSE IF fsize < MinAudioBytes THEN HTTPException(502, "Audio too small")
    ELSE IF fsize > MAX_AUDIO_BYTES THEN HTTPException(413, "Audio too large")
    ELSE Returned

\* the i-th segment of the lazy stream model.transcribe returns for a video:
\* segments come in chronological order, `step` seconds apart, one second long
RawSegment(vid, shape, i) ==
    [text |-> <<vid, i>>, start |-> (i - 1) * shape.step,
     end |-> (i - 1) * shape.step + 1]

seg_to_dict(s) ==
    [text |-> s.text, offset |-> s.start, duration |-> s.end - s.start]

\* estimated_duration = info.duration or 600
EstimatedDuration(duration) == IF duration = 0 THEN FallbackDuration ELSE duration

\* mutant: the flush waits for more than flush_interval unflushed segments
ShouldFlushStrict(n, flushed) == n - flushed > flush_interval

\* mutant: the flush waits for two intervals of unflushed segments
ShouldFlushDouble(n, flushed) == n - flushed >= 2 * flush_interval

\* if len(segments) - last_flush_count >= flush_interval
ShouldFlush(n, flushed) == n - flushed >= flush_interval

\* mutant: the percentage is not capped
PctNoCeiling(last_time, est) == (last_time * 100) \div est

\* pct = min(95, int(last_time / estimated_duration * 100))
Pct(last_time, est) == Min(PctCeiling, (last_time * 100) \div est)

\* mutant: the count is advanced whether or not the upsert succeeded
FlushedAfterAlways(n, flushed, ok) == n

\* mutant: the count records how many segments the flush added
FlushedAfterDelta(n, flushed, ok) == IF ok THEN n - flushed ELSE flushed

\* last_flush_count after a flush attempt with n segments: the assignment
\* last_flush_count = len(segments) is reached only when the calls succeeded
FlushedAfter(n, flushed, ok) == IF ok THEN n ELSE flushed

\* mutant: only the segments added since the last flush are sent
FlushPayloadDelta(segs, flushed) == SubSeq(segs, flushed + 1, Len(segs))

\* the list handed to supabase_upsert_segments: all of `segments`
FlushPayload(segs, flushed) == segs

\* mutant: the final flush is skipped when a periodic one covered everything
FinalFlushOnlyUnflushed(segs, flushed) == Len(segs) > flushed

\* `if segments:` before the final flush
FinalFlushNeeded(segs, flushed) == segs # <<>>

\* mutant: the heartbeat counts only the segments added since the last flush
SegmentsWrittenDelta(segs, flushed) == Len(segs) - flushed

\* segments_written=len(segments) of the progress heartbeat
SegmentsWritten(segs, flushed) == Len(segs)

\* the JSON row supabase_upsert_segments posts
UpsertRow(video_id, segs, source) ==
    [video_id |-> video_id,
     segments |-> segs,
     source |-> source,
     segment_count |-> Len(segs),
     duration_seconds |-> IF segs = <<>> THEN 0
                          ELSE segs[Len(segs)].offset + segs[Len(segs)].duration]

\* mutant: the POST inserts a new row whatever the table holds
MergeDuplicatesInsert(st, row) == st \cup {row}

\* POST /rest/v1/transcripts with Prefer: resolution=merge-duplicates
MergeDuplicates(st, row) == {r \in st : r.video_id # row.video_id} \cup {row}

\* supabase_heartbeat: the call it makes, if any (none without credentials)
HeartbeatCalls(configured, status, progress_pct, segments_written, delivered) ==
    IF ~configured THEN <<>>
    ELSE << [status |-> status, progress_pct |-> progress_pct,
             segments_written |-> segments_written, delivered |-> delivered] >>

\* mutant: the flush calls are not wrapped, a failed upsert propagates
FlushFailureAbortsAlways == TRUE

\* whether a failed checkpoint upsert aborts the request: the flush calls sit
\* in try/except Exception blocks that only print
FlushFailureAborts == FALSE

----------------------------------------------------------------------------
(* The startup sweep of /tmp *)

\* a file name is a stem followed by a suffix; its length is that of both
NameLen(e) == Len(e.stem) + Len(e.suffix)
\* str(p) of an entry of /tmp
PathOf(e) == <<"/tmp", e.stem, e.suffix>>
\* HF_HOME not set: os.environ.get("HF_HOME", "") is the empty string
Unset == <<>>

\* pathlib.Path("/tmp").glob("whisperx-*")
GlobMatches(e) == e.stem = "whisperx-"

\* mutant: the cache directory is not spared
IsModelCacheNever(e, hf) == FALSE

\* if hf_home and str(p) == hf_home: continue
IsModelCache(e, hf) == hf # Unset /\ PathOf(e) = hf

\* if not p.name.startswith("whisperx-") or len(p.name) < 15: continue
LooksLikeTempDir(e) == e.stem = "whisperx-" /\ NameLen(e) >= 15

\* cutoff = time.time() - 3600; p.stat().st_mtime < cutoff
OlderThanCutoff(mtime, now) == mtime < now - 3600

\* the entries the loop hands to shutil.rmtree (and prints as cleaned)
SweepRemoves(e, hf, now) ==
    /\ GlobMatches(e)
    /\ ~IsModelCache(e, hf)
    /\ LooksLikeTempDir(e)
    /\ OlderThanCutoff(e.mtime, now)

\* shutil.rmtree(p, ignore_errors=True) removes a directory tree; on anything
\* else it fails and the error is ignored
rmtree(e) == e.kind = "dir"

----------------------------------------------------------------------------
(* Inputs the environment supplies *)

\* time.time() when the sweep runs
Now == 10000
\* entries /tmp may hold: names of 14, 15 and 17 characters with the prefix,
\* and one of 17 without it; directories and plain files; last modified
\* one second less than, exactly, and one second more than an hour ago
EntryPool ==
    [stem : {"whisperx-", "whisperx_"}, suffix : {"abcde", "models", "a1b2c3d4"},
     kind : {"dir", "file"}, mtime : {Now - 3599, Now - 3600, Now - 3601}]
\* HF_HOME: unset, a directory of /tmp, the same name elsewhere
HfHomes == {Unset, <<"/tmp", "whisperx-", "models">>, <<"/data", "whisperx-", "models">>}

\* sets of at most n entries with distinct names
RECURSIVE EntrySets(_)
EntrySets(n) ==
    IF n = 0 THEN {{}}
    ELSE LET smaller == EntrySets(n - 1) IN
         smaller \cup
         {S \cup {e} : S \in smaller,
                       e \in EntryPool}

DistinctNames(S) ==
    \A a, b \in S : (a.stem = b.stem /\ a.suffix = b.suffix) => a = b

Scratches == {S \in EntrySets(MaxEntries) : DistinctNames(S)}

\* info.duration as the engine reports it (0: unknown or zero)
Durations == {0, 30, 100}
\* spacing of the segments' start times, in seconds
Steps == {0, 1, 3}
\* sizes of the downloaded file; NoFile when glob finds none
FileSizes == {NoFile, MinAudioBytes - 1, MinAudioBytes, MAX_AUDIO_BYTES,
              MAX_AUDIO_BYTES + 1}
\* lengths at which the segment stream may be exhausted
StreamLens == {0, 1, flush_interval - 1, flush_interval, flush_interval + 1,
               2 * flush_interval - 1, 2 * flush_interval, MaxSegs}
\* positions at which reading the stream may raise
RaisePoints == {0, 1, flush_interval + 2}
\* stream lengths and shapes in the runs with concurrent requests
ShortLens == {0, 1, flush_interval + 1}
ShortShapes == [duration : {0, 30}, step : {1}, length : ShortLens]

\* a video's audio as the engine sees it
Shapes == [duration : Durations, step : Steps, length : StreamLens]
DefaultShape == [duration |-> 0, step |-> 1, length |-> 1]

NoInfo == [duration |-> 0]

\* checkpoint and heartbeat calls of thread t that failed
Failures(t) ==
    Cardinality({i \in DOMAIN upserts[t] : ~upserts[t][i].ok})
    + Cardinality({i \in DOMAIN heartbeats[t] : ~heartbeats[t][i].delivered})

RECURSIVE SumFailures(_)
SumFailures(ts) ==
    IF ts = {} THEN 0
    ELSE LET t == CHOOSE x \in ts : TRUE IN Failures(t) + SumFailures(ts \ {t})

\* outcomes an outbound call may have
CallOutcomes == IF SumFailures(Threads) < MaxPersistFailures THEN BOOLEAN ELSE {TRUE}

----------------------------------------------------------------------------
(* State after module load *)

\* the videos behind the request identifiers: only an 11-character identifier
\* names one whose audio varies
Media(shapes) ==
    {[v \in VideoIds |-> IF Len(v) = 11 THEN f[v] ELSE DefaultShape] :
        f \in [{v \in VideoIds : Len(v) = 11} -> shapes]}

\* the module's globals after import, and the request threads at rest
ServiceLoaded(pool, shapes) ==
    /\ supabase_configured \in BOOLEAN
    /\ media \in Media(shapes)
    /\ workers = pool
    /\ gpu_lock = FALSE
    /\ currently_processing = None
    /\ transcription_count = 0
    /\ tmpdirs = {}
    /\ store = {}
    /\ pc = [t \in Threads |-> "idle"]
    /\ req = [t \in Threads |-> [endpoint |-> "transcribe", video_id |-> ""]]
    /\ guard = [t \in Threads |-> "none"]
    /\ info = [t \in Threads |-> NoInfo]
    /\ estimated_duration = [t \in Threads |-> 0]
    /\ segments = [t \in Threads |-> <<>>]
    /\ last_flush_count = [t \in Threads |-> 0]
    /\ yielded = [t \in Threads |-> 0]
    /\ count_tmp = [t \in Threads |-> 0]
    /\ audio = [t \in Threads |-> NoFile]
    /\ upserts = [t \in Threads |-> <<>>]
    /\ heartbeats = [t \in Threads |-> <<>>]
    /\ resp = [t \in Threads |-> NoResponse]

\* the service once startup is over: the sweep has run
InitWith(pool, shapes) ==
    /\ ServiceLoaded(pool, shapes)
    /\ scratch = {}
    /\ hf_home = Unset
    /\ swept = TRUE
    /\ cleaned = {}

\* a pool of request threads serving concurrent requests
Init == InitWith(Threads, ShortShapes)

\* one request thread, every stream shape
InitSolo == InitWith({"t1"}, Shapes)

----------------------------------------------------------------------------
(* Steps of a request thread *)

\* mutant: a failure sends the handler back to download the audio again
RaiseAndRetry(t, exc) ==
    /\ resp' = resp
    /\ pc' = [pc EXCEPT ![t] = "download"]

\* an exception reaches the handler's except clauses; the finally block follows
Raise(t, exc) ==
    /\ resp' = [resp EXCEPT ![t] = ErrorResponse(HandlerStatus(exc), exc.detail)]
    /\ pc' = [pc EXCEPT ![t] = "fin_cur"]

\* a request arrives and runs the checks that precede _gpu_lock.acquire
Receive(t) ==
    /\ pc[t] \in {"idle", "done"}
    /\ transcription_count < MaxJobs
    /\ \E endpoint \in Endpoints, vid \in VideoIds :
        LET code == EntryCheck(endpoint, vid, supabase_configured) IN
        /\ req' = [req EXCEPT ![t] = [endpoint |-> endpoint, video_id |-> vid]]
        /\ IF code # 0
           THEN /\ resp' = [resp EXCEPT ![t] = ErrorResponse(code, EntryDetail(code))]
                /\ pc' = [pc EXCEPT ![t] = "done"]
           ELSE /\ resp' = [resp EXCEPT ![t] = NoResponse]
                /\ pc' = [pc EXCEPT ![t] = "acquire"]
    /\ info' = [info EXCEPT ![t] = NoInfo]
    /\ estimated_duration' = [estimated_duration EXCEPT ![t] = 0]
    /\ segments' = [segments EXCEPT ![t] = <<>>]
    /\ last_flush_count' = [last_flush_count EXCEPT ![t] = 0]
    /\ yielded' = [yielded EXCEPT ![t] = 0]
    /\ count_tmp' = [count_tmp EXCEPT ![t] = 0]
    /\ audio' = [audio EXCEPT ![t] = NoFile]
    /\ upserts' = [upserts EXCEPT ![t] = <<>>]
    /\ heartbeats' = [heartbeats EXCEPT ![t] = <<>>]
    /\ guard' = [guard EXCEPT ![t] = "none"]
    /\ UNCHANGED shared
    /\ UNCHANGED startup_vars

\* if not _gpu_lock.acquire(blocking=False): raise HTTPException(503, ...)
Acquire(t) ==
    /\ pc[t] = "acquire"
    /\ IF TryAcquire(gpu_lock)
       THEN /\ gpu_lock' = TRUE
            /\ guard' = [guard EXCEPT ![t] = "held"]
            /\ pc' = [pc EXCEPT ![t] = "set_cur"]
            /\ UNCHANGED resp
       ELSE /\ resp' = [resp EXCEPT ![t] =
                    ErrorResponse(503, "GPU busy with another transcription")]
            /\ pc' = [pc EXCEPT ![t] = "done"]
            /\ UNCHANGED <<gpu_lock, guard>>
    /\ UNCHANGED <<supabase_configured, media, workers, currently_processing, transcription_count,
                   tmpdirs, store, req, job_locals>>
    /\ UNCHANGED audio
    /\ UNCHANGED startup_vars

\* _currently_processing = vid
SetCurrent(t) ==
    /\ pc[t] = "set_cur"
    /\ currently_processing' = req[t].video_id
    /\ pc' = [pc EXCEPT ![t] = "mkdtemp"]
    /\ UNCHANGED <<supabase_configured, media, workers, gpu_lock, transcription_count, tmpdirs,
                   store, req, guard, job_locals, resp>>
    /\ UNCHANGED audio
    /\ UNCHANGED startup_vars

\* tmpdir = tempfile.mkdtemp(dir="/tmp", prefix="whisperx-"), before the try:
\* when it raises OSError no finally block runs and the request ends with 500
Mkdtemp(t) ==
    /\ pc[t] = "mkdtemp"
    /\ \E created \in BOOLEAN :
        IF created
        THEN /\ tmpdirs' = tmpdirs \cup {t}
             /\ pc' = [pc EXCEPT ![t] = "download"]
             /\ UNCHANGED resp
        ELSE /\ resp' = [resp EXCEPT ![t] =
                     ErrorResponse(500, "Internal Server Error")]
             /\ pc' = [pc EXCEPT ![t] = "done"]
             /\ UNCHANGED tmpdirs
    /\ UNCHANGED <<supabase_configured, media, workers, gpu_lock, currently_processing,
                   transcription_count, store, req, guard, job_locals>>
    /\ UNCHANGED audio
    /\ UNCHANGED startup_vars

\* audio_path = download_audio(vid, tmpdir)
Download(t) ==
    /\ pc[t] = "download"
    /\ \E timed_out \in BOOLEAN, returncode \in {0, 1}, fsize \in FileSizes :
        LET r == download_audio(timed_out, returncode, fsize) IN
        \* the file is looked for only after yt-dlp has exited with code 0
        /\ (timed_out \/ returncode # 0) => fsize = NoFile
        /\ timed_out => returncode = 0
        /\ audio' = [audio EXCEPT ![t] = fsize]
        /\ IF r.kind = "return"
           THEN /\ pc' = [pc EXCEPT ![t] =
                       IF req[t].endpoint = "progressive" THEN "heartbeat"
                       ELSE "transcribe_audio"]
                /\ UNCHANGED resp
           ELSE Raise(t, r)
    /\ UNCHANGED <<shared, req, guard, job_locals>>
    /\ UNCHANGED startup_vars

\* supabase_heartbeat(req.job_id, req.worker_id, status="transcribing")
HeartbeatTranscribing(t) ==
    /\ pc[t] = "heartbeat"
    /\ \E delivered \in CallOutcomes :
        heartbeats' = [heartbeats EXCEPT ![t] = @ \o
            HeartbeatCalls(supabase_configured, "transcribing", Absent, Absent,
                           delivered)]
    /\ pc' = [pc EXCEPT ![t] = "transcribe_audio"]
    /\ UNCHANGED <<shared, req, guard, info, estimated_duration, segments,
                   last_flush_count, yielded, count_tmp, upserts, resp>>
    /\ UNCHANGED audio
    /\ UNCHANGED startup_vars

\* segs_gen, info = transcribe_audio(audio_path); estimated_duration = ...;
\* segments = []; last_flush_count = 0
TranscribeAudio(t) ==
    /\ pc[t] = "transcribe_audio"
    /\ \E raised \in BOOLEAN :
        IF raised
        THEN /\ Raise(t, OtherException)
             /\ UNCHANGED <<info, estimated_duration>>
        ELSE /\ LET d == media[req[t].video_id].duration IN
                 /\ info' = [info EXCEPT ![t] = [duration |-> d]]
                 /\ estimated_duration' = [estimated_duration EXCEPT ![t] =
                        IF req[t].endpoint = "progressive"
                        THEN EstimatedDuration(d) ELSE 0]
             /\ pc' = [pc EXCEPT ![t] = "loop"]
             /\ UNCHANGED resp
    /\ segments' = [segments EXCEPT ![t] = <<>>]
    /\ last_flush_count' = [last_flush_count EXCEPT ![t] = 0]
    /\ UNCHANGED <<shared, req, guard, yielded, count_tmp, upserts, heartbeats>>
    /\ UNCHANGED audio
    /\ UNCHANGED startup_vars

\* outcomes of supabase_upsert_segments: it raises RuntimeError without
\* credentials, and urlopen may raise
UpsertOutcomes(t) == IF supabase_configured THEN CallOutcomes ELSE {FALSE}

\* one iteration of `for s in segs_gen:`: append the segment and, on the
\* progressive endpoint, flush once flush_interval segments are unflushed
NextSegment(t) ==
    /\ pc[t] = "loop"
    /\ yielded[t] < media[req[t].video_id].length
    /\ LET segs == Append(segments[t], seg_to_dict(
                        RawSegment(req[t].video_id, media[req[t].video_id],
                                   yielded[t] + 1)))
           flush == /\ req[t].endpoint = "progressive"
                    /\ ShouldFlush(Len(segs), last_flush_count[t])
           last_time == segs[Len(segs)].offset
           pct == Pct(last_time, estimated_duration[t])
           row == UpsertRow(req[t].video_id,
                            FlushPayload(segs, last_flush_count[t]), "whisperx")
       IN
       /\ segments' = [segments EXCEPT ![t] = segs]
       /\ yielded' = [yielded EXCEPT ![t] = @ + 1]
       /\ IF ~flush
          THEN UNCHANGED <<upserts, heartbeats, last_flush_count, store, pc, resp>>
          ELSE \E ok \in UpsertOutcomes(t) :
                /\ upserts' = [upserts EXCEPT ![t] =
                        Append(@, [kind |-> "periodic", row |-> row, ok |-> ok])]
                /\ last_flush_count' = [last_flush_count EXCEPT ![t] =
                        FlushedAfter(Len(segs), @, ok)]
                /\ IF ok
                   THEN /\ store' = MergeDuplicates(store, row)
                        /\ \E delivered \in CallOutcomes :
                            heartbeats' = [heartbeats EXCEPT ![t] = @ \o
                                HeartbeatCalls(supabase_configured, None, Present(pct),
                                    Present(SegmentsWritten(segs, last_flush_count[t])),
                                    delivered)]
                        /\ UNCHANGED <<pc, resp>>
                   ELSE /\ UNCHANGED <<store, heartbeats>>
                        /\ IF FlushFailureAborts
                           THEN Raise(t, OtherException)
                           ELSE UNCHANGED <<pc, resp>>
    /\ UNCHANGED <<supabase_configured, media, workers, gpu_lock, currently_processing,
                   transcription_count, tmpdirs, req, guard, info,
                   estimated_duration, count_tmp>>
    /\ UNCHANGED audio
    /\ UNCHANGED startup_vars

\* the generator is exhausted: the for loop ends
StreamEnd(t) ==
    /\ pc[t] = "loop"
    /\ yielded[t] = media[req[t].video_id].length
    /\ pc' = [pc EXCEPT ![t] =
            IF req[t].endpoint = "progressive" THEN "final" ELSE "incr_read"]
    /\ UNCHANGED <<shared, req, guard, job_locals, resp>>
    /\ UNCHANGED audio
    /\ UNCHANGED startup_vars

\* the engine raises while the generator is read
StreamRaise(t) ==
    /\ pc[t] = "loop"
    /\ yielded[t] \in RaisePoints
    /\ yielded[t] <= media[req[t].video_id].length
    /\ Raise(t, OtherException)
    /\ UNCHANGED <<shared, req, guard, job_locals>>
    /\ UNCHANGED audio
    /\ UNCHANGED startup_vars

\* if segments: try: supabase_upsert_segments(vid, segments, "whisperx")
FinalFlush(t) ==
    /\ pc[t] = "final"
    /\ LET row == UpsertRow(req[t].video_id, segments[t], "whisperx") IN
       IF FinalFlushNeeded(segments[t], last_flush_count[t])
       THEN \E ok \in UpsertOutcomes(t) :
             /\ upserts' = [upserts EXCEPT ![t] =
                     Append(@, [kind |-> "final", row |-> row, ok |-> ok])]
             /\ store' = IF ok THEN MergeDuplicates(store, row) ELSE store
             /\ IF ~ok /\ FlushFailureAborts
                THEN Raise(t, OtherException)
                ELSE /\ pc' = [pc EXCEPT ![t] = "incr_read"]
                     /\ UNCHANGED resp
       ELSE /\ pc' = [pc EXCEPT ![t] = "incr_read"]
            /\ UNCHANGED <<upserts, store, resp>>
    /\ UNCHANGED <<supabase_configured, media, workers, gpu_lock, currently_processing,
                   transcription_count, tmpdirs, req, guard, info,
                   estimated_duration, segments, last_flush_count, yielded,
                   count_tmp, heartbeats>>
    /\ UNCHANGED audio
    /\ UNCHANGED startup_vars

\* _transcription_count += 1: the load
IncrRead(t) ==
    /\ pc[t] = "incr_read"
    /\ count_tmp' = [count_tmp EXCEPT ![t] = transcription_count]
    /\ pc' = [pc EXCEPT ![t] = "incr_write"]
    /\ UNCHANGED <<shared, req, guard, info, estimated_duration, segments,
                   last_flush_count, yielded, upserts, heartbeats, resp>>
    /\ UNCHANGED audio
    /\ UNCHANGED startup_vars

\* _transcription_count += 1: the store; then the return value is built
IncrWrite(t) ==
    /\ pc[t] = "incr_write"
    /\ transcription_count' = count_tmp[t] + 1
    /\ resp' = [resp EXCEPT ![t] =
            [code |-> 200,
             detail |-> "",
             body |-> [segments |-> segments[t],
                       duration |-> info[t].duration,
                       segment_count |->
                           IF req[t].endpoint = "progressive"
                           THEN Present(Len(segments[t])) ELSE Absent]]]
    /\ pc' = [pc EXCEPT ![t] = "fin_cur"]
    /\ UNCHANGED <<supabase_configured, media, workers, gpu_lock, currently_processing, tmpdirs,
                   store, req, guard, job_locals>>
    /\ UNCHANGED audio
    /\ UNCHANGED startup_vars

\* finally: _currently_processing = None
FinallyClear(t) ==
    /\ pc[t] = "fin_cur"
    /\ currently_processing' = None
    /\ pc' = [pc EXCEPT ![t] = "fin_release"]
    /\ UNCHANGED <<supabase_configured, media, workers, gpu_lock, transcription_count, tmpdirs,
                   store, req, guard, job_locals, resp>>
    /\ UNCHANGED audio
    /\ UNCHANGED startup_vars

\* finally: _gpu_lock.release()
FinallyRelease(t) ==
    /\ pc[t] = "fin_release"
    /\ gpu_lock' = FALSE
    /\ guard' = [guard EXCEPT ![t] = "released"]
    /\ pc' = [pc EXCEPT ![t] = "fin_rmtree"]
    /\ UNCHANGED <<supabase_configured, media, workers, currently_processing, transcription_count,
                   tmpdirs, store, req, job_locals, resp>>
    /\ UNCHANGED audio
    /\ UNCHANGED startup_vars

\* finally: shutil.rmtree(tmpdir, ignore_errors=True); the response goes out
FinallyRmtree(t) ==
    /\ pc[t] = "fin_rmtree"
    /\ tmpdirs' = tmpdirs \ {t}
    /\ audio' = [audio EXCEPT ![t] = NoFile]
    /\ pc' = [pc EXCEPT ![t] = "done"]
    /\ UNCHANGED <<supabase_configured, media, workers, gpu_lock, currently_processing,
                   transcription_count, store, req, guard, job_locals, resp>>
    /\ UNCHANGED startup_vars

----------------------------------------------------------------------------

Next ==
    \E t \in workers :
        \/ Receive(t)
        \/ Acquire(t)
        \/ SetCurrent(t)
        \/ Mkdtemp(t)
        \/ Download(t)
        \/ HeartbeatTranscribing(t)
        \/ TranscribeAudio(t)
        \/ NextSegment(t)
        \/ StreamEnd(t)
        \/ StreamRaise(t)
        \/ FinalFlush(t)
        \/ IncrRead(t)
        \/ IncrWrite(t)
        \/ FinallyClear(t)
        \/ FinallyRelease(t)
        \/ FinallyRmtree(t)

Spec == Init /\ [][Next]_vars

SpecSolo == InitSolo /\ [][Next]_vars

\* the steps of the handler serving the request of thread t, once received
Handle(t) ==
    \/ Acquire(t)
    \/ SetCurrent(t)
    \/ Mkdtemp(t)
    \/ Download(t)
    \/ HeartbeatTranscribing(t)
    \/ TranscribeAudio(t)
    \/ NextSegment(t)
    \/ StreamEnd(t)
    \/ StreamRaise(t)
    \/ FinalFlush(t)
    \/ IncrRead(t)
    \/ IncrWrite(t)
    \/ FinallyClear(t)
    \/ FinallyRelease(t)
    \/ FinallyRmtree(t)

\* one request thread whose handler, once started, keeps being scheduled: every
\* call it makes returns or raises (the download has a timeout, the outbound
\* requests have timeouts, the segment stream is finite)
InitFair == InitWith({"t1"}, ShortShapes)

SpecFair == InitFair /\ [][Next]_vars /\ \A t \in Threads : WF_vars(Handle(t))

----------------------------------------------------------------------------
(* Process start: startup() runs cleanup_orphan_temps before any request *)

\* the process has been launched over some leftover entries of /tmp
InitJanitor ==
    /\ ServiceLoaded({}, {DefaultShape})
    /\ scratch \in Scratches
    /\ hf_home \in HfHomes
    /\ swept = FALSE
    /\ cleaned = {}

\* cleanup_orphan_temps(): the whole loop over Path("/tmp").glob("whisperx-*")
CleanupOrphanTemps ==
    /\ ~swept
    /\ LET doomed == {e \in scratch : SweepRemoves(e, hf_home, Now)} IN
        /\ cleaned' = {PathOf(e) : e \in doomed}
        /\ scratch' = {e \in scratch : ~(e \in doomed /\ rmtree(e))}
    /\ swept' = TRUE
    /\ UNCHANGED <<hf_home, service_vars>>

NextJanitor == CleanupOrphanTemps

SpecJanitor == InitJanitor /\ [][NextJanitor]_vars

----------------------------------------------------------------------------
(* The job stages of the pipeline, read off the handler's position *)

\* Idle until _gpu_lock is taken; Downloading up to download_audio's return;
\* Transcribing while the stream is read (periodic flushes included); Flushing
\* from the end of the loop to the return statement; Done/Failed once the
\* handler has returned/raised (the finally block runs in these); Rejected
\* when the request ended without ever taking _gpu_lock
Stage(t) ==
    CASE pc[t] \in {"idle", "acquire"} -> "Idle"
      [] pc[t] \in {"set_cur", "mkdtemp", "download"} -> "Downloading"
      [] pc[t] \in {"heartbeat", "transcribe_audio", "loop"} -> "Transcribing"
      [] pc[t] \in {"final", "incr_read", "incr_write"} -> "Flushing"
      [] OTHER -> IF guard[t] = "none" THEN "Rejected"
                  ELSE IF resp[t].code = 200 THEN "Done" ELSE "Failed"

ActiveStages == {"Downloading", "Transcribing", "Flushing"}
Active(t) == Stage(t) \in ActiveStages

\* the request of thread t has been answered
Answered(t) == pc[t] = "done"

\* GET /status: what the handler reads from the module's globals
status ==
    [transcription_count |-> transcription_count,
     currently_processing |-> currently_processing]

----------------------------------------------------------------------------
(* C1  Guard mutual exclusion *)

\* at most one job is in Downloading/Transcribing/Flushing
AtMostOneActive == \A t, u \in Threads : Active(t) /\ Active(u) => t = u

\* the Guard is held only on behalf of a request that is still being served:
\* once the job that took it has been answered the Guard is free again
GuardFreeAfterJob ==
    gpu_lock => \E t \in Threads : guard[t] = "held" /\ ~Answered(t)

\* a request that tries the Guard while it is held is answered 503 in that
\* very step, and one that finds it free takes it
BusyRejectedAtOnce ==
    \A t \in Threads :
        (pc[t] = "acquire" /\ pc'[t] # "acquire") =>
            IF gpu_lock
            THEN pc'[t] = "done" /\ resp'[t].code = 503 /\ guard'[t] = "none"
            ELSE pc'[t] = "set_cur" /\ guard'[t] = "held" /\ gpu_lock'

\* C1: for any interleaving of requests to the two endpoints at most one job
\* is in Downloading/Transcribing/Flushing, a request arriving while the Guard
\* is held is rejected at once with 503, and once the holding job has
\* terminated the Guard is free for a new request.
C1_GuardMutualExclusion ==
    /\ [](AtMostOneActive /\ GuardFreeAfterJob)
    /\ [][BusyRejectedAtOnce]_vars

----------------------------------------------------------------------------
(* C2  Cleanup on every exit path *)

\* C2: whenever a request that acquired the Guard has been answered, whatever
\* the way it ended, it no longer holds the Guard and its scratch directory
\* no longer exists.
C2_CleanupOnEveryExit ==
    \A t \in Threads :
        (Answered(t) /\ guard[t] # "none") =>
            (guard[t] = "released" /\ t \notin tmpdirs)

----------------------------------------------------------------------------
(* C3  Rejection before any resource acquisition *)

\* the request of thread t has no 11-character identifier, or asks for the
\* progressive endpoint while the store credentials are unconfigured
Unacceptable(t) ==
    \/ Len(req[t].video_id) # 11
    \/ req[t].endpoint = "progressive" /\ ~supabase_configured

\* such a request is answered without having taken the Guard or made a directory
RejectedUntouched ==
    \A t \in Threads :
        (pc[t] # "idle" /\ Unacceptable(t)) =>
            /\ Answered(t)
            /\ resp[t].code \in {400, 500}
            /\ guard[t] = "none"
            /\ t \notin tmpdirs

\* the step that rejects it leaves the Guard, the in-flight identifier, the
\* completed-job counter and the directories as they were
RejectionChangesNothing ==
    \A t \in Threads :
        (pc'[t] # pc[t] /\ pc'[t] # "idle" /\ Unacceptable(t)') =>
            UNCHANGED <<gpu_lock, currently_processing, transcription_count, tmpdirs>>

\* C3: a request without an 11-character identifier (either endpoint), and any
\* progressive request while the store credentials are unconfigured, is
\* rejected without acquiring the Guard or creating a scratch directory, and
\* the Guard, the in-flight identifier and the completed-job counter are the
\* same after the rejection as before it.
C3_RejectedBeforeAcquisition ==
    /\ []RejectedUntouched
    /\ [][RejectionChangesNothing]_vars

\* both kinds of rejection have happened while the Guard is free and stays free
C3_Witness ==
    \E t, u \in Threads :
        /\ Answered(t) /\ resp[t].code = 400 /\ Len(req[t].video_id) = 12
        /\ Answered(u) /\ resp[u].code = 500 /\ req[u].endpoint = "progressive"
        /\ Len(req[u].video_id) = 11 /\ ~supabase_configured
        /\ ~gpu_lock /\ currently_processing = None

----------------------------------------------------------------------------
(* Notions shared by the claims about the progressive flush protocol *)

Progressive(t) == req[t].endpoint = "progressive"

IsPrefix(a, b) == Len(a) <= Len(b) /\ \A i \in 1..Len(a) : a[i] = b[i]

\* the handler of thread t has left the final flush behind without failing
PastFinalFlush(t) ==
    \/ pc[t] \in {"incr_read", "incr_write"}
    \/ pc[t] \in {"fin_cur", "fin_release", "fin_rmtree", "done"} /\ resp[t].code = 200

\* the progressive job of thread t has returned its result and been answered
DoneProgressive(t) == Progressive(t) /\ Answered(t) /\ resp[t].code = 200

AllUpsertsOk(t) == \A i \in DOMAIN upserts[t] : upserts[t][i].ok

\* kind and size of each checkpoint of thread t, in order
Checkpoints(t) ==
    [i \in DOMAIN upserts[t] |-> <<upserts[t][i].kind, Len(upserts[t][i].row.segments)>>]

IsPeriodic(u) == u.kind = "periodic"
IsFinal(u) == u.kind = "final"
IsOkPeriodic(u) == u.kind = "periodic" /\ u.ok

----------------------------------------------------------------------------
(* C4  Flush threshold *)

\* C4 (as amended): when all checkpoints succeed, a stream of exactly 39
\* segments gives one periodic checkpoint of 20 segments and a final one of
\* all 39; a stream of exactly 40 segments gives periodic checkpoints of 20
\* and of 40 segments and then a final one of all 40.
C4_FlushThreshold ==
    \A t \in Threads :
        (Progressive(t) /\ PastFinalFlush(t) /\ AllUpsertsOk(t)) =>
            /\ Len(segments[t]) = 39 =>
                 /\ Checkpoints(t) = << <<"periodic", 20>>, <<"final", 39>> >>
                 /\ upserts[t][2].row.segments = segments[t]
            /\ Len(segments[t]) = 40 =>
                 /\ Checkpoints(t) =
                        << <<"periodic", 20>>, <<"periodic", 40>>, <<"final", 40>> >>
                 /\ upserts[t][3].row.segments = segments[t]

\* C4 as stated: 39 segments give the periodic checkpoint at 20 and the final
\* one; 40 segments give the periodic checkpoint at 20 and the final one.
C4_FlushThresholdAsStated ==
    \A t \in Threads :
        (Progressive(t) /\ PastFinalFlush(t) /\ AllUpsertsOk(t)) =>
            /\ Len(segments[t]) = 39 =>
                 Checkpoints(t) = << <<"periodic", 20>>, <<"final", 39>> >>
            /\ Len(segments[t]) = 40 =>
                 Checkpoints(t) = << <<"periodic", 20>>, <<"final", 40>> >>

\* a 40-segment job whose checkpoints all succeeded has been answered
C4_Witness ==
    \E t \in Threads :
        DoneProgressive(t) /\ AllUpsertsOk(t) /\ Len(resp[t].body.segments) = 40

----------------------------------------------------------------------------
(* C5  Periodic checkpoint rule *)

\* every checkpoint carries the job's identifier and a prefix of the segments
\* accumulated, of every later checkpoint and of the list returned
CheckpointPrefixes ==
    \A t \in Threads : Progressive(t) =>
        \A i \in DOMAIN upserts[t] :
            /\ upserts[t][i].row.video_id = req[t].video_id
            /\ IsPrefix(upserts[t][i].row.segments, segments[t])
            /\ \A j \in DOMAIN upserts[t] :
                   i < j => IsPrefix(upserts[t][i].row.segments,
                                     upserts[t][j].row.segments)
            /\ resp[t].code = 200 =>
                   IsPrefix(upserts[t][i].row.segments, resp[t].body.segments)

\* a step that appends a segment attempts a checkpoint of the whole list iff
\* 20 or more segments are unflushed, and no other step makes a periodic one
PeriodicRule ==
    \A t \in Threads : Progressive(t) =>
        IF Len(segments'[t]) = Len(segments[t]) + 1
        THEN IF Len(segments'[t]) - last_flush_count[t] >= 20
             THEN /\ Len(upserts'[t]) = Len(upserts[t]) + 1
                  /\ upserts'[t][Len(upserts'[t])].kind = "periodic"
                  /\ upserts'[t][Len(upserts'[t])].row.segments = segments'[t]
                  /\ upserts'[t][Len(upserts'[t])].row.video_id = req[t].video_id
             ELSE upserts'[t] = upserts[t]
        ELSE Len(SelectSeq(upserts'[t], IsPeriodic))
                <= Len(SelectSeq(upserts[t], IsPeriodic))

\* C5: after each newly appended segment a checkpoint is attempted iff
\* len(segments) - lastFlushedCount >= 20; its payload is the entire list
\* accumulated so far, keyed by the job's identifier, so each payload is a
\* prefix of every later payload and of the list finally returned.
C5_PeriodicCheckpointRule ==
    /\ []CheckpointPrefixes
    /\ [][PeriodicRule]_vars

\* a job answered after a failed checkpoint, its retry and the final one
C5_Witness ==
    \E t \in Threads :
        /\ DoneProgressive(t)
        /\ Len(upserts[t]) >= 3
        /\ ~upserts[t][1].ok /\ upserts[t][2].ok
        /\ Len(upserts[t][2].row.segments) = 21

----------------------------------------------------------------------------
(* C6  Final checkpoint *)

FinalCheckpoints(t) == SelectSeq(upserts[t], IsFinal)

\* once the loop has ended normally there is exactly one final checkpoint, it is
\* the last call and carries all the segments; none exists before that
OneFinalCheckpoint(t) ==
    IF PastFinalFlush(t)
    THEN /\ Len(FinalCheckpoints(t)) = 1
         /\ upserts[t][Len(upserts[t])].kind = "final"
         /\ upserts[t][Len(upserts[t])].row.segments = segments[t]
    ELSE pc[t] \in {"loop", "final"} => FinalCheckpoints(t) = <<>>

\* a job that made its final checkpoint is never failed, whether the call
\* succeeded or not
FinalFailureNotFatal(t) ==
    FinalCheckpoints(t) # <<>> => (resp[t].code \in {0, 200} /\ Stage(t) # "Failed")

\* C6 (as amended): in every progressive job whose stream is exhausted without
\* a transcription failure and has yielded at least one segment, exactly one
\* final checkpoint carrying all accumulated segments is attempted after the
\* last segment and before Done, also when the last periodic checkpoint
\* already covered every segment, and its failure does not prevent Done; when
\* the stream yields no segment no final checkpoint is attempted.
C6_FinalCheckpoint ==
    \A t \in Threads : Progressive(t) =>
        /\ segments[t] # <<>> => OneFinalCheckpoint(t)
        /\ (segments[t] = <<>> /\ PastFinalFlush(t)) => upserts[t] = <<>>
        /\ FinalFailureNotFatal(t)

\* C6 as stated: the final checkpoint is attempted for every segment count
C6_FinalCheckpointAsStated ==
    \A t \in Threads : Progressive(t) =>
        (OneFinalCheckpoint(t) /\ FinalFailureNotFatal(t))

\* a job is Done whose last periodic checkpoint covered all 40 segments, and
\* whose final checkpoint, sent all the same, failed
C6_Witness ==
    \E t \in Threads :
        /\ DoneProgressive(t)
        /\ last_flush_count[t] = 40 /\ Len(segments[t]) = 40
        /\ Len(FinalCheckpoints(t)) = 1
        /\ ~upserts[t][Len(upserts[t])].ok

----------------------------------------------------------------------------
(* C7  Persistence failures are never fatal *)

\* what the engine yields for a video, as the handler converts it
FullStream(vid) ==
    [i \in 1..media[vid].length |-> seg_to_dict(RawSegment(vid, media[vid], i))]

\* the result of a progressive job depends on the video's stream alone
ResultFromStreamAlone ==
    \A t \in Threads :
        (Progressive(t) /\ resp[t].code = 200) =>
            resp[t].body = [segments |-> FullStream(req[t].video_id),
                            duration |-> media[req[t].video_id].duration,
                            segment_count |-> Present(media[req[t].video_id].length)]

\* a step in which a checkpoint or heartbeat call fails goes on exactly where
\* the successful call would: no response is set, the handler is not in its
\* finally block, the segments read are kept, the counter is untouched
FailedCallChangesNoOutcome ==
    \A t \in Threads :
        (Progressive(t) /\ Failures(t)' > Failures(t)) =>
            /\ resp'[t] = resp[t]
            /\ pc'[t] \in {"transcribe_audio", "loop", "incr_read"}
            /\ pc'[t] = IF pc[t] = "heartbeat" THEN "transcribe_audio"
                        ELSE IF pc[t] = "loop" THEN "loop" ELSE "incr_read"
            /\ IsPrefix(segments[t], segments'[t])
            /\ transcription_count' = transcription_count
            /\ guard'[t] = guard[t]

\* C7: the success or failure of a checkpoint upsert or heartbeat never
\* changes a progressive job's outcome: whichever calls fail, the job of a
\* given stream ends in the same stage and returns the same segments, duration
\* and segment_count, and the counter changes the same way.
C7_PersistenceNeverFatal ==
    /\ []ResultFromStreamAlone
    /\ [][FailedCallChangesNoOutcome]_vars

\* a job is Done although a checkpoint upsert and a heartbeat of it failed
C7_Witness ==
    \E t \in Threads :
        /\ DoneProgressive(t)
        /\ \E i \in DOMAIN upserts[t] : ~upserts[t][i].ok
        /\ \E i \in DOMAIN heartbeats[t] : ~heartbeats[t][i].delivered
        /\ Len(resp[t].body.segments) >= 20
        /\ transcription_count = 1

----------------------------------------------------------------------------
(* C8  Job state machine *)

TerminalStages == {"Done", "Failed", "Rejected"}

\* the moves of a job's stage: one step forward along the chain, or from a
\* running stage to Failed; a terminal stage is left only when the thread,
\* having answered, takes up a new request
StageMove(t) ==
    LET a == Stage(t)
        b == Stage(t)'
    IN \/ a = b
       \/ a = "Idle" /\ b \in {"Downloading", "Rejected"}
       \/ a = "Downloading" /\ b \in {"Transcribing", "Failed"}
       \/ a = "Transcribing" /\ b \in {"Flushing", "Failed"}
       \/ a = "Flushing" /\ b \in {"Done", "Failed"}
       \/ /\ a \in TerminalStages /\ b \in {"Idle", "Rejected"}
          /\ Answered(t) /\ guard'[t] = "none" /\ pc'[t] \in {"acquire", "done"}

\* a step in which the handler's error response is set takes a running job
\* straight to Failed
ExceptionFails(t) ==
    (Active(t) /\ resp'[t].code \notin {0, 200} /\ resp'[t] # resp[t]) =>
        Stage(t)' = "Failed"

----------------------------------------------------------------------------
(* C9  Heartbeat contract *)

BeforeTranscribing == {"idle", "acquire", "set_cur", "mkdtemp", "download", "heartbeat"}
WhileRunning == {"transcribe_audio", "loop", "final", "incr_read", "incr_write"}
InFinally == {"fin_cur", "fin_release", "fin_rmtree", "done"}

OkPeriodic(t) == SelectSeq(upserts[t], IsOkPeriodic)

\* the heartbeats after the first one
ProgressHeartbeats(t) == Tail(heartbeats[t])

TranscribingHeartbeat(h) ==
    h.status = "transcribing" /\ h.progress_pct = Absent /\ h.segments_written = Absent

\* no heartbeat before Transcribing is entered; from then on the first one is
\* the 'transcribing' heartbeat, sent before any segment or checkpoint, and
\* the others match the successful periodic checkpoints one to one, in order
HeartbeatLog(t) ==
    /\ pc[t] \in BeforeTranscribing => heartbeats[t] = <<>>
    /\ (pc[t] \in WhileRunning \/ segments[t] # <<>> \/ upserts[t] # <<>>) =>
           heartbeats[t] # <<>>
    /\ heartbeats[t] # <<>> =>
        /\ TranscribingHeartbeat(heartbeats[t][1])
        /\ Len(ProgressHeartbeats(t)) = Len(OkPeriodic(t))
        /\ \A i \in 1..Len(OkPeriodic(t)) :
            /\ ProgressHeartbeats(t)[i].status = None
            /\ ProgressHeartbeats(t)[i].progress_pct # Absent
            /\ ProgressHeartbeats(t)[i].segments_written
                   = Present(Len(OkPeriodic(t)[i].row.segments))

\* the 'transcribing' heartbeat is the step from Downloading into Transcribing;
\* a job whose acquisition fails has sent none and sends none afterwards
HeartbeatSteps(t) ==
    /\ (pc[t] = "download" /\ pc'[t] # "download") =>
           IF pc'[t] = "heartbeat" THEN heartbeats'[t] = <<>>
           ELSE pc'[t] = "fin_cur" /\ heartbeats'[t] = <<>>
    /\ (pc[t] = "heartbeat" /\ pc'[t] # "heartbeat") =>
           /\ pc'[t] = "transcribe_audio"
           /\ Len(heartbeats'[t]) = 1
           /\ segments'[t] = <<>> /\ upserts'[t] = <<>> /\ yielded'[t] = 0
    /\ (pc[t] \in InFinally /\ pc'[t] \in InFinally /\ req'[t] = req[t]
            /\ pc[t] # "done") =>
           heartbeats'[t] = heartbeats[t]

\* C9: in a progressive job a heartbeat with stage 'transcribing' is sent on
\* entering Transcribing, before any segment is consumed and before any
\* checkpoint; a progress heartbeat follows every successful periodic
\* checkpoint, carrying segmentsWritten equal to the number of segments in
\* it; a failed periodic checkpoint gets none, and a job whose acquisition
\* failed sends none.
C9_HeartbeatContract ==
    /\ [](\A t \in Threads : Progressive(t) => HeartbeatLog(t))
    /\ [][\A t \in Threads : Progressive(t) => HeartbeatSteps(t)]_vars

\* a job answered after a failed periodic checkpoint and two successful ones
C9_Witness ==
    \E t \in Threads :
        /\ DoneProgressive(t)
        /\ Len(heartbeats[t]) = 3
        /\ heartbeats[t][3].segments_written = Present(41)
        /\ \E i \in DOMAIN upserts[t] : IsPeriodic(upserts[t][i]) /\ ~upserts[t][i].ok

----------------------------------------------------------------------------
(* C10  Progress monotonicity and ceiling *)

\* floor(min(95, t / D * 100)) for t >= 0 and D > 0
FloorMin95(t, D) ==
    IF 100 * t >= 95 * D THEN 95
    ELSE CHOOSE p \in 0..94 : p * D <= 100 * t /\ 100 * t < (p + 1) * D

\* the stream's reported duration, or 600 when it is unknown or zero
EstimateFor(vid) ==
    IF media[vid].duration > 0 THEN media[vid].duration ELSE 600

LastOffset(segs) == segs[Len(segs)].offset

ProgressPcts(t) ==
    [i \in 1..Len(ProgressHeartbeats(t)) |-> ProgressHeartbeats(t)[i].progress_pct[1]]

\* C10: the percentage reported with a checkpoint is floor(min(95, t/D*100))
\* for the offset t of its last segment and the estimated duration D; the
\* percentages a job reports are non-decreasing and lie between 0 and 95.
C10_ProgressPercentage ==
    \A t \in Threads :
        (Progressive(t) /\ heartbeats[t] # <<>>) =>
            /\ Len(ProgressPcts(t)) = Len(OkPeriodic(t))
            /\ \A i \in DOMAIN ProgressPcts(t) :
                /\ ProgressPcts(t)[i] =
                       FloorMin95(LastOffset(OkPeriodic(t)[i].row.segments),
                                  EstimateFor(req[t].video_id))
                /\ ProgressPcts(t)[i] \in 0..95
                /\ \A j \in DOMAIN ProgressPcts(t) :
                       i < j => ProgressPcts(t)[i] <= ProgressPcts(t)[j]

\* a job has reported a percentage below the ceiling and then the ceiling
C10_Witness ==
    \E t \in Threads :
        /\ Progressive(t)
        /\ Len(heartbeats[t]) = 3
        /\ heartbeats[t][2].progress_pct[1] \in 1..94
        /\ heartbeats[t][3].progress_pct = Present(95)

----------------------------------------------------------------------------
(* C11  Outcome codes *)

\* the conditions download_audio and its subprocess report as a failed
\* acquisition: download failed, no output file, too small, timed out
AcquisitionFailures ==
    {"Audio download failed", "No audio file found", "Audio too small", "timed out"}

\* the outcome the contract assigns to the request of thread t, from what
\* happened to it
ContractCode(t) ==
    IF Progressive(t) /\ ~supabase_configured THEN 500
    ELSE IF Len(req[t].video_id) # 11 THEN 400
    ELSE IF guard[t] = "none" THEN 503
    ELSE IF resp[t].detail \in AcquisitionFailures THEN 502
    ELSE IF resp[t].detail = "Audio too large" THEN 413
    ELSE IF resp[t].detail # "" THEN 500
    ELSE 200

\* every answered request carries an outcome, and it is the contract's
OutcomeIsContractCode ==
    \A t \in Threads :
        /\ Answered(t) => resp[t].code # 0
        /\ resp[t].code # 0 => resp[t].code = ContractCode(t)

\* an outcome, once determined, is the request's only one
OutcomeIsFinal ==
    \A t \in Threads :
        (resp[t].code # 0 /\ req'[t] = req[t] /\ pc'[t] # "acquire") =>
            resp'[t] = resp[t]

\* C11: every request to either endpoint ends with exactly one outcome: 400
\* for an invalid identifier, 503 when the Guard is held, 502 for every
\* acquisition failure (download failed, no output file, too small, download
\* timed out), 413 for audio too large, 500 for any other failure and for
\* unconfigured credentials on the progressive endpoint, success otherwise.
C11_OutcomeCodes ==
    /\ []OutcomeIsContractCode
    /\ [][OutcomeIsFinal]_vars

\* the same with the timed-out download left out of the acquisition failures:
\* what the handlers do for every other cause
OutcomeCodesButTimeout ==
    \A t \in Threads :
        (resp[t].code # 0 /\ resp[t].detail # "timed out") =>
            resp[t].code = ContractCode(t)

----------------------------------------------------------------------------
(* C12  Acquisition size boundary *)

\* thread t is inside the try block with download_audio behind it
Downloaded(t) ==
    pc[t] \in {"heartbeat", "transcribe_audio", "loop", "final", "incr_read",
               "incr_write", "fin_cur", "fin_release", "fin_rmtree"}

\* download_audio accepted the file it found for thread t
AudioAccepted(t) ==
    resp[t].detail \notin {"Audio too small", "Audio too large"}

\* the file a finished download left is accepted iff its size is within the
\* limits, and is refused as too small below them and as too large above
SizeDecides ==
    \A t \in Threads :
        (Downloaded(t) /\ audio[t] # NoFile) =>
            /\ AudioAccepted(t) <=> (1000 <= audio[t] /\ audio[t] <= 1500000000)
            /\ audio[t] < 1000 =>
                 resp[t].code = 502 /\ resp[t].detail = "Audio too small"
            /\ audio[t] > 1500000000 =>
                 resp[t].code = 413 /\ resp[t].detail = "Audio too large"

\* the four sizes at the two limits
SizeBoundaries ==
    /\ download_audio(FALSE, 0, 1000) = Returned
    /\ download_audio(FALSE, 0, 999) = HTTPException(502, "Audio too small")
    /\ download_audio(FALSE, 0, 1500000000) = Returned
    /\ download_audio(FALSE, 0, 1500000001) = HTTPException(413, "Audio too large")

\* C12: a downloaded file of s bytes is accepted iff 1000 <= s <= 1,500,000,000:
\* 1000 bytes is accepted, 999 is refused as too small, 1,500,000,000 is
\* accepted and 1,500,000,001 is refused as too large.
C12_SizeBoundary == SizeDecides /\ SizeBoundaries

\* a job is transcribing a file of exactly 1000 bytes
C12_Witness ==
    \E t \in Threads :
        /\ pc[t] = "loop" /\ audio[t] = 1000 /\ resp[t].code = 0
        /\ Len(segments[t]) > 0

----------------------------------------------------------------------------
(* C13  Janitor sweep *)

\* named as the sweep recognises this service's directories: the prefix
\* whisperx- followed by at least six more characters
NamedPerPattern(e) == e.stem = "whisperx-" /\ Len(e.suffix) >= 6

\* last modified more than / less than one hour before the sweep
OlderThanAnHour(e) == Now - e.mtime > 3600
YoungerThanAnHour(e) == Now - e.mtime < 3600

IsCachePath(e) == hf_home # Unset /\ <<"/tmp", e.stem, e.suffix>> = hf_home

\* the sweep removes exactly the old directories named per pattern other than
\* the model cache, and changes nothing else
SweepDeletesExactly ==
    ~swept /\ swept' =>
        /\ scratch' \subseteq scratch
        /\ \A e \in scratch :
            /\ e.kind = "dir" =>
                (e \notin scratch' <=>
                    NamedPerPattern(e) /\ OlderThanAnHour(e) /\ ~IsCachePath(e))
            /\ (YoungerThanAnHour(e) \/ ~NamedPerPattern(e) \/ IsCachePath(e)) =>
                e \in scratch'

----------------------------------------------------------------------------
(* C14  Idempotent checkpoint *)

\* the rows the store holds for an identifier
RowsOf(vid) == {r \in store : r.video_id = vid}

\* the checkpoints of thread t that succeeded, in order
OkUpserts(t) == SelectSeq(upserts[t], LAMBDA u : u.ok)

\* the store never holds two rows for one identifier
SingleRecord == \A vid \in VideoIds : Cardinality(RowsOf(vid)) <= 1

\* after the checkpoints of a job, the row of its identifier is the one its
\* most recent successful checkpoint sent
LatestWins ==
    \A t \in Threads :
        (Progressive(t) /\ OkUpserts(t) # <<>>) =>
            RowsOf(req[t].video_id) = {OkUpserts(t)[Len(OkUpserts(t))].row}

\* a Done job whose final checkpoint succeeded has stored what it returned
StoredIsReturned ==
    \A t \in Threads :
        (/\ DoneProgressive(t)
         /\ upserts[t] # <<>>
         /\ upserts[t][Len(upserts[t])].kind = "final"
         /\ upserts[t][Len(upserts[t])].ok) =>
            \E r \in store :
                /\ RowsOf(req[t].video_id) = {r}
                /\ r.segments = resp[t].body.segments
                /\ r.segment_count = Len(resp[t].body.segments)

\* C14: after any sequence of checkpoints for one identifier the store holds
\* a single record for it, equal to the most recent successfully upserted
\* list; when a progressive job reaches Done and its final checkpoint
\* succeeded, the stored segments equal the list returned to the caller.
C14_IdempotentCheckpoint == SingleRecord /\ LatestWins /\ StoredIsReturned

\* a Done job of 40 segments upserted 20, then 40, then all 40 again, and the
\* store holds one row of 40
C14_Witness ==
    \E t \in Threads :
        /\ DoneProgressive(t) /\ AllUpsertsOk(t)
        /\ Checkpoints(t) = << <<"periodic", 20>>, <<"periodic", 40>>, <<"final", 40>> >>
        /\ \E r \in store : store = {r} /\ Len(r.segments) = 40

----------------------------------------------------------------------------
(* C15  Completed-job counter *)

\* the jobs that reach Done in this step
ReachingDone == {t \in Threads : Stage(t) # "Done" /\ Stage(t)' = "Done"}

\* the counter moves by the number of jobs reaching Done, and not otherwise:
\* it never decreases, and no rejected or failed request changes it
CounterStep == transcription_count' = transcription_count + Cardinality(ReachingDone)

\* a step in which a request is rejected or fails leaves the counter alone
RejectedOrFailedKeepCounter ==
    \A t \in Threads :
        (Stage(t) \notin {"Rejected", "Failed"} /\ Stage(t)' \in {"Rejected", "Failed"}) =>
            transcription_count' = transcription_count

\* C15: under any interleaving of concurrent requests the completed-job
\* counter never decreases, increases by exactly 1 each time a job reaches
\* Done and is unchanged by every rejected or failed request, so that it
\* always equals the number of jobs that have reached Done.
C15_CompletedJobCounter ==
    /\ transcription_count = 0
    /\ [][CounterStep /\ RejectedOrFailedKeepCounter]_vars

\* two jobs, one on each endpoint, have reached Done one after the other
C15_Witness ==
    /\ transcription_count = 2
    /\ \A t \in Threads : Stage(t) = "Done" /\ Answered(t)
    /\ \E t, u \in Threads : ~Progressive(t) /\ Progressive(u)

----------------------------------------------------------------------------
(* C16  Every accepted job terminates *)

\* a job that has taken the Guard eventually is Done or Failed
JobsEnd ==
    \A t \in Threads :
        (guard[t] = "held") ~> (Stage(t) \in {"Done", "Failed"} /\ Answered(t))

\* and the Guard is eventually free again
GuardFreedAgain == \A t \in Threads : (guard[t] = "held") ~> ~gpu_lock

\* C16: under fairness and with a finite segment stream every job that
\* acquires the Guard eventually reaches Done or Failed, and the Guard is
\* eventually free again afterwards, so the service never stays busy forever.
C16_AcceptedJobTerminates == JobsEnd /\ GuardFreedAgain

----------------------------------------------------------------------------
(* C17  Retry after a failed checkpoint *)

\* thread t makes a checkpoint attempt in this step
Attempts(t) == Len(upserts'[t]) = Len(upserts[t]) + 1
LastAttempt(t) == upserts[t][Len(upserts[t])]

\* the latest checkpoint attempt of thread t was periodic and failed, and the
\* loop is still running
AfterFailedPeriodic(t) ==
    /\ Progressive(t) /\ pc[t] = "loop" /\ upserts[t] # <<>>
    /\ IsPeriodic(LastAttempt(t)) /\ ~LastAttempt(t).ok

\* a failing periodic checkpoint leaves the job running, last_flush_count and
\* the store as they were, and the segments accumulated
FailedPeriodicContinues ==
    \A t \in Threads :
        (Attempts(t) /\ IsPeriodic(LastAttempt(t)') /\ ~LastAttempt(t)'.ok) =>
            /\ pc'[t] = "loop" /\ resp'[t].code = 0
            /\ last_flush_count'[t] = last_flush_count[t]
            /\ store' = store
            /\ IsPrefix(segments[t], segments'[t])

\* after it, the threshold is met again at the next segment, which retries a
\* checkpoint of the whole list; when an attempt succeeds the store holds
\* every segment accumulated up to it
RetryIsFull ==
    \A t \in Threads :
        (AfterFailedPeriodic(t) /\ segments'[t] # segments[t]) =>
            /\ Attempts(t)
            /\ IsPeriodic(LastAttempt(t)')
            /\ LastAttempt(t)'.row.segments = segments'[t]
            /\ LastAttempt(t)'.ok =>
                 /\ \E r \in store' :
                        r.video_id = req[t].video_id /\ r.segments = segments'[t]
                 /\ last_flush_count'[t] = Len(segments'[t])

\* C17: when a periodic checkpoint fails the job is not aborted,
\* lastFlushedCount is unchanged and streaming continues; the next threshold
\* crossing retries a checkpoint of the full accumulated list, so that when a
\* later attempt succeeds the store holds every segment accumulated up to it.
C17_RetryAfterFailedCheckpoint == [][FailedPeriodicContinues /\ RetryIsFull]_vars

\* the checkpoint at 20 segments failed, the one retried at 21 succeeded and
\* the store holds all 21
C17_Witness ==
    \E t \in Threads :
        /\ Progressive(t) /\ pc[t] = "loop" /\ Len(upserts[t]) = 2
        /\ Checkpoints(t) = << <<"periodic", 20>>, <<"periodic", 21>> >>
        /\ ~upserts[t][1].ok /\ upserts[t][2].ok
        /\ last_flush_count[t] = 21
        /\ \E r \in store : Len(r.segments) = 21

----------------------------------------------------------------------------
(* C18  Bounded loss of partial work *)

\* segments accumulated by thread t that no successful periodic checkpoint covers
Unflushed(t) == Len(segments[t]) - last_flush_count[t]

\* periodic checkpoint attempts of thread t that failed
FailedPeriodic(t) ==
    Cardinality({i \in DOMAIN upserts[t] : IsPeriodic(upserts[t][i]) /\ ~upserts[t][i].ok})

\* C18 as stated: at every point of a progressive job
\* len(segments) - lastFlushedCount <= 20.
C18_BoundedLossAsStated ==
    \A t \in Threads : Progressive(t) => Unflushed(t) <= 20

\* C18 (as amended): while no periodic checkpoint of the job has failed, at
\* most one interval is unflushed (fewer than 20 segments once the
\* iteration's checkpoint has run); each failed periodic checkpoint lets the
\* unflushed count grow by one more segment.
C18_BoundedLoss ==
    \A t \in Threads : Progressive(t) =>
        /\ FailedPeriodic(t) = 0 => Unflushed(t) < 20
        /\ Unflushed(t) <= 19 + FailedPeriodic(t)

\* a job without failed checkpoints holds 19 unflushed segments after its
\* checkpoint at 20
C18_Witness ==
    \E t \in Threads :
        /\ Progressive(t) /\ pc[t] = "loop" /\ FailedPeriodic(t) = 0
        /\ last_flush_count[t] = 20 /\ Len(segments[t]) = 39

----------------------------------------------------------------------------
(* C19  Flush-count invariant *)

\* size of the most recent successful periodic checkpoint of thread t
LastOkPeriodicSize(t) ==
    IF OkPeriodic(t) = <<>> THEN 0
    ELSE Len(OkPeriodic(t)[Len(OkPeriodic(t))].row.segments)

FlushCountInRange ==
    \A t \in Threads : Progressive(t) =>
        /\ 0 <= last_flush_count[t]
        /\ last_flush_count[t] <= Len(segments[t])
        /\ last_flush_count[t] = LastOkPeriodicSize(t)

\* the request of thread t goes on in this step (no new request replaces it)
SameJob(t) == pc'[t] \notin {"idle", "acquire"} /\ pc[t] \notin {"idle", "done"}

\* within a job segments grows only at its end, one segment at a time, and
\* last_flush_count changes only to len(segments), in the step of a
\* successful periodic checkpoint
FlushCountSteps ==
    \A t \in Threads : (Progressive(t) /\ SameJob(t)) =>
        /\ IsPrefix(segments[t], segments'[t])
        /\ Len(segments'[t]) <= Len(segments[t]) + 1
        /\ last_flush_count'[t] # last_flush_count[t] =>
             /\ last_flush_count'[t] = Len(segments'[t])
             /\ Attempts(t)
             /\ IsOkPeriodic(LastAttempt(t)')

\* C19: in every reachable state of a progressive job
\* 0 <= lastFlushedCount <= len(segments); segments only grows by appending;
\* lastFlushedCount changes only by being set to len(segments) right after a
\* successful periodic checkpoint, so it equals the size of the most recent
\* successful periodic checkpoint (0 if there was none).
C19_FlushCountInvariant == []FlushCountInRange /\ [][FlushCountSteps]_vars

\* after a failed checkpoint at 20 and successful ones at 21 and 41 the count
\* is 41, with the final checkpoint still to come
C19_Witness ==
    \E t \in Threads :
        /\ Progressive(t) /\ pc[t] = "final"
        /\ Checkpoints(t) =
               << <<"periodic", 20>>, <<"periodic", 21>>, <<"periodic", 41>> >>
        /\ ~upserts[t][1].ok /\ upserts[t][2].ok /\ upserts[t][3].ok
        /\ last_flush_count[t] = 41 /\ Len(segments[t]) = 41

----------------------------------------------------------------------------
(* C20  In-flight identifier consistency *)

\* the job holding the Guard: a request that acquired it and is still served
HoldsGuard(t) == guard[t] = "held" /\ ~Answered(t)

\* a reported identifier is that of the job holding the Guard, and nothing is
\* reported while the Guard is free
InFlightIsHolder ==
    /\ status.currently_processing # None =>
         /\ gpu_lock
         /\ \E t \in Threads :
                HoldsGuard(t) /\ req[t].video_id = status.currently_processing
    /\ ~gpu_lock => status.currently_processing = None

\* a request rejected as busy or invalid leaves the identifier as it was
RejectionKeepsInFlight ==
    \A t \in Threads :
        (/\ <<pc[t], req[t], resp[t]>>' # <<pc[t], req[t], resp[t]>>
         /\ pc[t] \in {"idle", "done", "acquire"}
         /\ pc'[t] = "done" /\ resp'[t].code \in {400, 503}) =>
            currently_processing' = currently_processing

\* C20: under any interleaving, whenever the in-flight identifier the status
\* query reports is non-null the Guard is held and the identifier is that of
\* the job holding it; whenever the Guard is free the identifier is null; a
\* request rejected as busy or invalid never changes it.
C20_InFlightConsistency ==
    /\ []InFlightIsHolder
    /\ [][RejectionKeepsInFlight]_vars

\* what holds of the identifier whatever the job's fate: it is reported only
\* while the lock is locked, and rejections leave it alone
InFlightOnlyWhileLocked ==
    /\ [](status.currently_processing # None => gpu_lock)
    /\ [](~gpu_lock => status.currently_processing = None)
    /\ [][RejectionKeepsInFlight]_vars

====
